---- MODULE Spec2Model ----
(***************************************************************************)
(* A model of pytest_qgis/utils.py: the helper functions that pytest-qgis  *)
(* runs against the QgsProject singleton (layer registry, project CRS and  *)
(* layer tree), the fixture clean-up guard and the event-pumping wait.     *)
(*                                                                         *)
(* Layer objects are numbered in creation order; QgsProject.mapLayers()    *)
(* is a QMap keyed by layer id, so iterating it visits the registered      *)
(* layers in id order.  Python indices are 0-based and are kept 0-based in *)
(* every operator that models an index of the source.                      *)
(***************************************************************************)
EXTENDS Integers, Sequences, FiniteSets, TLC

VARIABLES
    layers,      \* Seq of layer objects constructed so far (index = layer id)
    registry,    \* ids in QgsProject.instance().mapLayers()
    projectCrs,  \* authid of QgsProject.instance().crs()
    tree,        \* children of QgsProject.instance().layerTreeRoot()
    last,        \* what the most recent call of a utils function did
    clock,       \* time.time(), in clock ticks
    pc,          \* position of the caller inside wait()
    start,       \* wait(): the local variable start
    waitTime,    \* wait(): the argument wait_time_milliseconds
    pumped       \* number of QCoreApplication.processEvents() calls made by wait()

vars == <<layers, registry, projectCrs, tree, last, clock, pc, start, waitTime, pumped>>

projectVars == <<layers, registry, projectCrs, tree>>
waitVars == <<clock, pc, start, waitTime, pumped>>

-----------------------------------------------------------------------------
(* Bounds of the model *)

MaxLayers == 2       \* layers a test loads into the project
MaxObjects == 4      \* layer objects in all, targets and reprojected clones included
MaxFixtures == 2     \* length of request.fixturenames
MaxCrsLayers == 3    \* layers in the project when its CRS is chosen
MaxExtentLayers == 3 \* layers in the project when the common extent is taken
MaxClock == 5        \* largest reading of the clock
MaxPumps == 3        \* processEvents calls counted for one wait
TicksPerMs == 2      \* clock ticks in a millisecond

-----------------------------------------------------------------------------
(* Values *)

DEFAULT_RASTER_FORMAT == "tif"
DEFAULT_CRS == "EPSG:4326"
InvalidCrs == ""     \* authid of a QgsCoordinateReferenceSystem that is not valid

Min(S) == CHOOSE x \in S : \A y \in S : x <= y
Max(S) == CHOOSE x \in S : \A y \in S : x >= y

SeqToSet(s) == { s[i] : i \in 1..Len(s) }

RECURSIVE Filter(_, _)
\* [x for x in s if x in keep], order kept
Filter(s, keep) ==
    IF s = <<>> THEN <<>>
    ELSE IF Head(s) \in keep THEN <<Head(s)>> \o Filter(Tail(s), keep)
         ELSE Filter(Tail(s), keep)

\* A layer object as its driver constructs it: not registered, no tree node.
NewLayerObject(kind, spatial, valid, name, crs, extent, style) ==
    [kind |-> kind, spatial |-> spatial, valid |-> valid, name |-> name,
     crs |-> crs, extent |-> extent, style |-> style, metadata |-> style,
     source |-> <<name>>, deleted |-> FALSE]

UnitExtent == [xmin |-> 1, ymin |-> 1, xmax |-> 1, ymax |-> 1]

IsVectorLayer(l) == l.kind = "vector"     \* isinstance(layer, QgsVectorLayer)
IsRasterLayer(l) == l.kind = "raster"     \* isinstance(layer, QgsRasterLayer)

-----------------------------------------------------------------------------
(* The layer tree: the root's children are layer nodes and groups of layer nodes *)

LayerNode(id) == [type |-> "layer", id |-> id]
GroupNode(name, children) == [type |-> "group", name |-> name, children |-> children]

\* QgsLayerTreeNode.name(): a layer node shows its layer's name
NodeName(ls, n) == IF n.type = "layer" THEN ls[n.id].name ELSE n.name

\* 1-based position of the first layer node for id among children, 0 if none
PosIn(children, id) ==
    LET hits == { i \in 1..Len(children) :
                    children[i].type = "layer" /\ children[i].id = id }
    IN IF hits = {} THEN 0 ELSE Min(hits)

\* QgsLayerTreeGroup.findLayer: depth-first, first node referring to the layer.
\* The path to the node: <<i>> under the root, <<i, j>> inside group i, <<>> if none.
FindLayer(t, id) ==
    LET hits == { i \in 1..Len(t) :
                    \/ t[i].type = "layer" /\ t[i].id = id
                    \/ t[i].type = "group" /\ PosIn(t[i].children, id) # 0 }
    IN IF hits = {} THEN <<>>
       ELSE LET i == Min(hits)
            IN IF t[i].type = "layer" THEN <<i>> ELSE <<i, PosIn(t[i].children, id)>>

\* layer_tree_layer.parent().children() for the node at path
Siblings(t, path) == IF Len(path) = 1 THEN t ELSE t[path[1]].children

\* ids of every layer node of the tree
TreeLayerIds(t) ==
    UNION { IF t[i].type = "layer" THEN {t[i].id}
            ELSE { t[i].children[j].id : j \in 1..Len(t[i].children) } : i \in 1..Len(t) }

\* QList insert at a 0-based index; an index past the end appends
InsertAt(s, idx0, x) ==
    IF idx0 < 0 \/ idx0 >= Len(s) THEN Append(s, x)
    ELSE SubSeq(s, 1, idx0) \o <<x>> \o SubSeq(s, idx0 + 1, Len(s))

RemoveAt(s, pos) == SubSeq(s, 1, pos - 1) \o SubSeq(s, pos + 1, Len(s))

\* group.insertLayer(idx0, layer) where group is the parent of the node at path
InsertLayerBeside(t, path, idx0, id) ==
    IF Len(path) = 1 THEN InsertAt(t, idx0, LayerNode(id))
    ELSE [t EXCEPT ![path[1]].children = InsertAt(@, idx0, LayerNode(id))]

\* QgsLayerTreeRegistryBridge.layersWillBeRemoved for one id: the node findLayer
\* gives is taken out of its parent
RemoveLayerNode(t, id) ==
    LET path == FindLayer(t, id)
    IN IF path = <<>> THEN t
       ELSE IF Len(path) = 1 THEN RemoveAt(t, path[1])
       ELSE [t EXCEPT ![path[1]].children = RemoveAt(@, path[2])]

-----------------------------------------------------------------------------
(* QgsProject: a project state is [layers, registry, tree] *)

ProjectState == [layers |-> layers, registry |-> registry, tree |-> tree]

\* QgsProject.addMapLayer(layer, addToLegend): a layer already in the store is left
\* alone; a new one is stored (the store takes ownership) and, with addToLegend,
\* the registry bridge puts its node first under the root.
AddMapLayer(st, id, addToLegend) ==
    IF id \in st.registry THEN st
    ELSE [st EXCEPT !.registry = @ \cup {id},
                    !.tree = IF addToLegend THEN InsertAt(@, 0, LayerNode(id)) ELSE @]

\* QgsProject.removeMapLayer(id): an id not in the store is ignored; a stored layer
\* loses its tree node, leaves the store and is deleted by the store that owns it.
RemoveMapLayer(st, id) ==
    IF id \notin st.registry THEN st
    ELSE [st EXCEPT !.registry = @ \ {id},
                    !.tree = RemoveLayerNode(@, id),
                    !.layers = [@ EXCEPT ![id].deleted = TRUE]]

RECURSIVE RemoveMapLayers(_, _)
\* QgsProject.removeMapLayers(ids)
RemoveMapLayers(st, ids) ==
    IF ids = <<>> THEN st
    ELSE RemoveMapLayers(RemoveMapLayer(st, Head(ids)), Tail(ids))

-----------------------------------------------------------------------------
(* transform_rectangle and the coordinate transform it calls *)

\* Coordinates of a CRS, as seen from a common base grid: base * scale + offset
CrsScale(crs) == IF crs = "EPSG:3857" THEN 2 ELSE 1
CrsOffset(crs) == IF crs = "EPSG:3067" THEN 3 ELSE 0

CeilDiv(a, b) == -((-a) \div b)

\* QgsCoordinateTransform(in, out, project).transformBoundingBox(rectangle): the
\* box around the transformed rectangle, lower edges rounded down and upper
\* edges rounded up
TransformBoundingBox(r, in_crs, out_crs) ==
    LET lo(v) == ((v - CrsOffset(in_crs)) \div CrsScale(in_crs)) * CrsScale(out_crs)
                    + CrsOffset(out_crs)
        hi(v) == CeilDiv(v - CrsOffset(in_crs), CrsScale(in_crs)) * CrsScale(out_crs)
                    + CrsOffset(out_crs)
    IN [xmin |-> lo(r.xmin), ymin |-> lo(r.ymin), xmax |-> hi(r.xmax), ymax |-> hi(r.ymax)]

transform_rectangle(rectangle, in_crs, out_crs) ==
    IF in_crs = out_crs THEN rectangle
    ELSE TransformBoundingBox(rectangle, in_crs, out_crs)

-----------------------------------------------------------------------------
(* copy_layer_style_and_position *)

\* {child.name(): i for i, child in enumerate(children)}[name]: a later child
\* with the same name overwrites the entry of an earlier one.  0-based.
NameIndex(ls, children, name) ==
    Max({ i \in 1..Len(children) : NodeName(ls, children[i]) = name }) - 1

\* Lines 165-172: style, metadata and name go from layer1 to layer2, and a valid
\* layer2 is registered without a legend entry.  es is an execution state
\* [layers, registry, tree, raised, clones].
CopyStyleAndRegister(es, l1, l2, saveOk) ==
    LET ls == [es.layers EXCEPT
                  ![l2].style = IF saveOk THEN es.layers[l1].style ELSE @,
                  ![l2].metadata = es.layers[l1].metadata,
                  ![l2].name = es.layers[l1].name]
        named == [es EXCEPT !.layers = ls]
    IN IF ls[l2].valid
       THEN LET st == AddMapLayer(named, l2, FALSE)
            IN [named EXCEPT !.registry = st.registry, !.tree = st.tree]
       ELSE named

\* Lines 174-181: layer2 gets a node in the group of layer1's node, at the index
\* looked up by the name of layer1's node, plus one.  With no node for layer1,
\* root.findLayer gives None and None.parent() raises.
InsertAfterSource(es, l1, l2) ==
    LET path == FindLayer(es.tree, l1)
    IN IF path = <<>> THEN [es EXCEPT !.raised = TRUE]
       ELSE LET children == Siblings(es.tree, path)
                node == children[path[Len(path)]]
                index == NameIndex(es.layers, children, NodeName(es.layers, node))
            IN [es EXCEPT !.tree = InsertLayerBeside(@, path, index + 1, l2)]

copy_layer_style_and_position(es, l1, l2, saveOk) ==
    InsertAfterSource(CopyStyleAndRegister(es, l1, l2, saveOk), l1, l2)

-----------------------------------------------------------------------------
(* replace_layers_with_reprojected_clones *)

\* What the external call (processing.run, or gdal.Warp and the QgsRasterLayer
\* constructor) does for one input layer: it raises, or it gives an output layer
\* that is valid, with its CRS stamped or not, or invalid (gdal.Warp gave None
\* without raising, the output cannot be read) and then without a CRS.
Raises == [raises |-> TRUE, valid |-> FALSE, crsStamped |-> FALSE]
Outcomes ==
    {Raises} \cup { o \in [raises : {FALSE}, valid : BOOLEAN, crsStamped : BOOLEAN] :
                      o.crsStamped => o.valid }

\* The output layer of the reprojection of input layer l to map_crs
OutputLayer(ls, l, map_crs, o) ==
    [NewLayerObject(ls[l].kind, TRUE, o.valid,
                    IF IsVectorLayer(ls[l]) THEN "Reprojected" ELSE "",
                    IF o.crsStamped THEN map_crs ELSE InvalidCrs,
                    transform_rectangle(ls[l].extent, ls[l].crs, map_crs),
                    "default")
        \* the memory output of the algorithm, or <tmp_path>/<name>.tif
        EXCEPT !.source = IF IsVectorLayer(ls[l]) THEN <<"memory">>
                          ELSE <<ls[l].name, DEFAULT_RASTER_FORMAT>>]

\* if not output_layer.crs().isValid(): output_layer.setCrs(map_crs)
EnsureCrs(layer, map_crs) ==
    IF layer.crs = InvalidCrs THEN [layer EXCEPT !.crs = map_crs] ELSE layer

\* One iteration of either loop (lines 128-136, 138-153)
ReplaceOne(es, l, map_crs, o, saveOk) ==
    IF o.raises THEN [es EXCEPT !.raised = TRUE]
    ELSE LET out == Len(es.layers) + 1
             made == [es EXCEPT
                        !.layers = Append(@, EnsureCrs(OutputLayer(@, l, map_crs, o), map_crs)),
                        !.clones = Append(@, [orig |-> l, clone |-> out])]
         IN copy_layer_style_and_position(made, l, out, saveOk)

RECURSIVE ReplaceLoop(_, _, _, _, _)
\* Both loops, over the spatial vector layers and then the spatial raster
\* layers: an exception ends them
ReplaceLoop(es, queue, map_crs, outcomes, saveOk) ==
    IF queue = <<>> \/ es.raised THEN es
    ELSE ReplaceLoop(ReplaceOne(es, Head(queue), map_crs, Head(outcomes), saveOk),
                     Tail(queue), map_crs, Tail(outcomes), saveOk)

vector_layers(ls, input) ==
    Filter(input, { l \in 1..Len(ls) : IsVectorLayer(ls[l]) /\ ls[l].spatial })
raster_layers(ls, input) ==
    Filter(input, { l \in 1..Len(ls) : IsRasterLayer(ls[l]) /\ ls[l].spatial })

\* Line 156: QgsProject.instance().removeMapLayers([layer.id() for layer in layers])
RemoveOriginals(es, input) ==
    LET st == RemoveMapLayers(es, input)
    IN [es EXCEPT !.layers = st.layers, !.registry = st.registry, !.tree = st.tree]

ExecState(st) ==
    [layers |-> st.layers, registry |-> st.registry, tree |-> st.tree,
     raised |-> FALSE, clones |-> <<>>]

\* A cleanup that runs on failure too
replace_removing_on_failure(st, map_crs, input, outcomes, saveOk) ==
    LET looped == ReplaceLoop(ExecState(st),
                              vector_layers(st.layers, input)
                                 \o raster_layers(st.layers, input),
                              map_crs, outcomes, saveOk)
    IN [es |-> RemoveOriginals(looped, input), mid |-> looped.tree]

\* The whole call: [es |-> execution state at return or raise, mid |-> the tree
\* when the loops ended]
replace_layers_with_reprojected_clones(st, map_crs, input, outcomes, saveOk) ==
    LET looped == ReplaceLoop(ExecState(st),
                              vector_layers(st.layers, input)
                                 \o raster_layers(st.layers, input),
                              map_crs, outcomes, saveOk)
    IN [es |-> IF looped.raised THEN looped ELSE RemoveOriginals(looped, input),
        mid |-> looped.tree]

-----------------------------------------------------------------------------
(* The state after start-up, and what a test does to the project *)

Names == {"a", "b"}
GroupNames == {"a"}
CRSs == {"EPSG:4326", "EPSG:3857"}
LayerCRSs == {"EPSG:3857"}    \* the CRS of the layers loaded before a replacement
\* <<class, isSpatial()>>: a vector layer with geometry, an attribute table, a raster
LayerKinds == {<<"vector", TRUE>>, <<"vector", FALSE>>, <<"raster", TRUE>>}

NoCall == [op |-> "none"]

Init ==
    /\ layers = <<>>
    /\ registry = {}
    /\ projectCrs = InvalidCrs
    /\ tree = <<>>
    /\ last = NoCall
    /\ clock = 0
    /\ pc = "idle"
    /\ start = 0
    /\ waitTime = 0
    /\ pumped = 0

Live == { l \in 1..Len(layers) : ~layers[l].deleted }

GroupPositions(t) == { i \in 1..Len(t) : t[i].type = "group" }

\* QgsProject.instance().setCrs(crs), called before any layer is loaded
SetProjectCrs ==
    /\ last = NoCall
    /\ layers = <<>>
    /\ tree = <<>>
    /\ projectCrs = InvalidCrs
    /\ \E c \in CRSs : projectCrs' = c
    /\ UNCHANGED <<layers, registry, tree, last, waitVars>>

\* root.addGroup(name): a new empty group, last under the root.  The trees of the
\* model have the root and at most one group below it.
AddGroup ==
    /\ last = NoCall
    /\ projectCrs # InvalidCrs
    /\ GroupPositions(tree) = {}
    /\ \E n \in GroupNames : tree' = Append(tree, GroupNode(n, <<>>))
    /\ UNCHANGED <<layers, registry, projectCrs, last, waitVars>>

\* A layer is constructed and added with its legend entry ("legend":
\* addMapLayer(layer)), or added without one (addMapLayer(layer, False)) and left
\* so ("hidden") or appended to a group ("group": group.addLayer(layer))
Place(st, id, placement) ==
    IF placement = "legend" THEN AddMapLayer(st, id, TRUE)
    ELSE IF placement = "hidden" THEN AddMapLayer(st, id, FALSE)
    ELSE LET g == Min(GroupPositions(st.tree))
         IN [AddMapLayer(st, id, FALSE) EXCEPT
                !.tree[g].children = Append(@, LayerNode(id))]

LoadLayer(obj, placement) ==
    /\ Len(layers) < MaxLayers
    /\ placement = "group" => GroupPositions(tree) # {}
    /\ LET st == Place([ProjectState EXCEPT !.layers = Append(@, obj)],
                       Len(layers) + 1, placement)
       IN /\ layers' = st.layers
          /\ registry' = st.registry
          /\ tree' = st.tree
    /\ UNCHANGED <<projectCrs, last, waitVars>>

\* A test loads a layer into the project
EnvLoadLayer ==
    /\ last = NoCall
    /\ projectCrs # InvalidCrs
    /\ \E k \in LayerKinds, n \in Names, c \in LayerCRSs, p \in {"legend", "group"} :
          LoadLayer(NewLayerObject(k[1], k[2], TRUE, n, c, UnitExtent, "custom"), p)

-----------------------------------------------------------------------------
(* Calls of copy_layer_style_and_position and replace_layers_with_reprojected_clones *)

Snapshot == [layers |-> layers, registry |-> registry, tree |-> tree, crs |-> projectCrs]

\* The caller constructs the target layer (valid or not) and hands it over
CopyLayerStyleAndPosition ==
    /\ last = NoCall
    /\ Len(layers) < MaxObjects
    /\ \E l1 \in Live, valid \in BOOLEAN, saveOk \in BOOLEAN :
        LET l2 == Len(layers) + 1
            target == NewLayerObject(layers[l1].kind, layers[l1].spatial, valid, "",
                                     projectCrs, UnitExtent, "default")
            es == copy_layer_style_and_position(
                      ExecState([ProjectState EXCEPT !.layers = Append(@, target)]),
                      l1, l2, saveOk)
        IN /\ layers' = es.layers
           /\ registry' = es.registry
           /\ tree' = es.tree
           /\ last' = [op |-> "copy", layer1 |-> l1, layer2 |-> l2, saveOk |-> saveOk,
                       pre |-> Snapshot, raised |-> es.raised]
    /\ UNCHANGED <<projectCrs, waitVars>>

\* The sequences over S, in ascending order, of length 1..n
SortedSeqs(S) ==
    { s \in UNION { [1..n -> S] : n \in 1..Cardinality(S) } :
        \A i \in 1..(Len(s) - 1) : s[i] < s[i + 1] }

RECURSIVE OutcomeSeqs(_)
\* One outcome per layer of the queue; nothing is asked after a call that raised
OutcomeSeqs(n) ==
    IF n = 0 THEN {<<>>}
    ELSE { <<o>> \o s : o \in Outcomes \ {Raises}, s \in OutcomeSeqs(n - 1) }
         \cup { [i \in 1..n |-> Raises] }

\* The input is a list of live layers in the order get_layers_with_different_crs
\* lists them (the order of mapLayers())
ReplaceLayersWithReprojectedClones ==
    /\ last = NoCall
    /\ \E input \in SortedSeqs(Live), saveOk \in BOOLEAN :
        LET queue == vector_layers(layers, input) \o raster_layers(layers, input)
        IN /\ Len(layers) + Len(queue) <= MaxObjects
           /\ \E outcomes \in OutcomeSeqs(Len(queue)) :
                LET r == replace_layers_with_reprojected_clones(
                             ProjectState, projectCrs, input, outcomes, saveOk)
                IN /\ layers' = r.es.layers
                   /\ registry' = r.es.registry
                   /\ tree' = r.es.tree
                   /\ last' = [op |-> "replace", input |-> input, queue |-> queue,
                               outcomes |-> outcomes, saveOk |-> saveOk,
                               pre |-> Snapshot, raised |-> r.es.raised,
                               clones |-> r.es.clones, mid |-> r.mid]
                   /\ UNCHANGED <<projectCrs, waitVars>>

Next ==
    \/ SetProjectCrs
    \/ AddGroup
    \/ EnvLoadLayer
    \/ CopyLayerStyleAndPosition
    \/ ReplaceLayersWithReprojectedClones

Spec == Init /\ [][Next]_vars

-----------------------------------------------------------------------------
(* ensure_qgis_layer_fixtures_are_cleaned *)

\* A fixture name is the sequence of its characters
LAYER_KEYWORDS ==
    << <<"l", "a", "y", "e", "r">>, <<"l", "y", "r">>, <<"r", "a", "s", "t", "e", "r">>,
       <<"r", "a", "s", "t">>, <<"t", "i", "f">> >>

UpperCase == <<"A", "B", "C", "D", "E", "F", "G", "H", "I", "J", "K", "L", "M",
               "N", "O", "P", "Q", "R", "S", "T", "U", "V", "W", "X", "Y", "Z">>
LowerCase == <<"a", "b", "c", "d", "e", "f", "g", "h", "i", "j", "k", "l", "m",
               "n", "o", "p", "q", "r", "s", "t", "u", "v", "w", "x", "y", "z">>

\* str.lower()
Lower(name) ==
    [i \in 1..Len(name) |->
        IF \E k \in 1..Len(UpperCase) : UpperCase[k] = name[i]
        THEN LowerCase[CHOOSE k \in 1..Len(UpperCase) : UpperCase[k] = name[i]]
        ELSE name[i]]

\* sub in name
Contains(name, sub) ==
    \E i \in 1..(Len(name) - Len(sub) + 1) : SubSeq(name, i, i + Len(sub) - 1) = sub

\* any(possible_layer_name in fixture_name.lower()
\*     for possible_layer_name in LAYER_KEYWORDS)
HasKeyword(fixture_name) ==
    \E k \in 1..Len(LAYER_KEYWORDS) : Contains(Lower(fixture_name), LAYER_KEYWORDS[k])

\* The fixture names of the test session, in the order pytest lists them
RasterFixture == <<"r", "a", "s", "t", "e", "r", "_", "f", "i", "x", "t", "u", "r", "e">>
UnrelatedFixture ==
    <<"u", "n", "r", "e", "l", "a", "t", "e", "d", "_", "f", "i", "x", "t", "u", "r", "e">>
MyLayer == <<"M", "y", "L", "a", "y", "e", "r">>
GeoTIF == <<"G", "e", "o", "T", "I", "F">>
FixtureNames == <<RasterFixture, UnrelatedFixture, MyLayer, GeoTIF>>

\* The keyword test of each fixture name of the session
NameHasKeyword == [n \in SeqToSet(FixtureNames) |-> HasKeyword(n)]

\* QgsProject.instance().mapLayers(True): the valid layers of the store
ValidMapLayers(fs) == { l \in fs.registry : fs.layers[l].valid }

\* A fixture value is a layer object [layer |-> id] or some other object
IsMapLayer(value) == "layer" \in DOMAIN value      \* isinstance(layer, QgsMapLayer)

\* fs is [layers, registry, tree, log, seen]; log holds the calls made, each with
\* the index of the fixture name it was made for
Logged(fs, step, call, arg) ==
    [fs EXCEPT !.log = Append(@, [step |-> step, call |-> call, arg |-> arg])]

WithProject(fs, st) ==
    [fs EXCEPT !.layers = st.layers, !.registry = st.registry, !.tree = st.tree]

_set_layer_owner_to_project(fs, step, value) ==
    IF /\ IsMapLayer(value)
       /\ ~fs.layers[value.layer].deleted                 \* not sip.isdeleted(layer)
       /\ value.layer \notin ValidMapLayers(fs)
    THEN LET added == Logged(WithProject(fs, AddMapLayer(fs, value.layer, TRUE)),
                             step, "addMapLayer", value.layer)
         IN Logged(WithProject(added, RemoveMapLayer(added, value.layer)),
                   step, "removeMapLayer", value.layer)
    ELSE fs

\* What the layer a fixture resolves to was like when its turn came
Observe(fs, value) ==
    IF IsMapLayer(value)
    THEN [live |-> ~fs.layers[value.layer].deleted,
          registered |-> value.layer \in fs.registry]
    ELSE [live |-> FALSE, registered |-> FALSE]

Unrequested == [raises |-> "AssertionError"]

\* The body of the loop for fixturenames[step]; resolver[name] is what
\* request.getfixturevalue(name) gives: a value, or Unrequested when it raises
\* the AssertionError of a fixture that was never requested
EnsureOne(fs, step, fixture_name, resolver) ==
    IF NameHasKeyword[fixture_name]
    THEN LET asked == Logged(fs, step, "getfixturevalue", fixture_name)
             value == resolver[fixture_name]
             noted == [asked EXCEPT !.seen = Append(@, Observe(fs, value))]
         IN IF value = Unrequested THEN noted
            ELSE _set_layer_owner_to_project(noted, step, value)
    ELSE [fs EXCEPT !.seen = Append(@, Observe(fs, Unrequested))]

RECURSIVE EnsureLoop(_, _, _, _)
EnsureLoop(fs, step, fixturenames, resolver) ==
    IF step > Len(fixturenames) THEN fs
    ELSE EnsureLoop(EnsureOne(fs, step, fixturenames[step], resolver),
                    step + 1, fixturenames, resolver)

\* A loop that gives up at the first fixture that was never requested
RECURSIVE EnsureLoopBreaking(_, _, _, _)
EnsureLoopBreaking(fs, step, fixturenames, resolver) ==
    IF step > Len(fixturenames) THEN fs
    ELSE IF NameHasKeyword[fixturenames[step]] /\ resolver[fixturenames[step]] = Unrequested
    THEN EnsureOne(fs, step, fixturenames[step], resolver)
    ELSE EnsureLoopBreaking(EnsureOne(fs, step, fixturenames[step], resolver),
                            step + 1, fixturenames, resolver)

ensure_breaking_at_unrequested(st, fixturenames, resolver) ==
    EnsureLoopBreaking([layers |-> st.layers, registry |-> st.registry, tree |-> st.tree,
                        log |-> <<>>, seen |-> <<>>], 1, fixturenames, resolver)

ensure_qgis_layer_fixtures_are_cleaned(st, fixturenames, resolver) ==
    EnsureLoop([layers |-> st.layers, registry |-> st.registry, tree |-> st.tree,
                log |-> <<>>, seen |-> <<>>], 1, fixturenames, resolver)

\* The non-empty sub-lists of FixtureNames of at most MaxFixtures names
FixtureLists ==
    { [i \in 1..Len(pick) |-> FixtureNames[pick[i]]] :
        pick \in { s \in SortedSeqs(1..Len(FixtureNames)) : Len(s) <= MaxFixtures } }

\* A test constructs a layer for a fixture and may add it to the project
EnvFixtureLayer ==
    /\ last = NoCall
    /\ \E valid \in BOOLEAN, p \in {"legend", "none"} :
          LET obj == NewLayerObject("vector", TRUE, valid, "a", DEFAULT_CRS,
                                    UnitExtent, "default")
          IN IF p = "none"
             THEN /\ Len(layers) < MaxLayers
                  /\ layers' = Append(layers, obj)
                  /\ UNCHANGED <<registry, tree, projectCrs, last, waitVars>>
             ELSE LoadLayer(obj, p)

\* A test removes one of its layers from the project
EnvRemoveLayer ==
    /\ last = NoCall
    /\ \E l \in registry :
          LET st == RemoveMapLayer(ProjectState, l)
          IN /\ layers' = st.layers
             /\ registry' = st.registry
             /\ tree' = st.tree
    /\ UNCHANGED <<projectCrs, last, waitVars>>

EnsureQgisLayerFixturesAreCleaned ==
    /\ last = NoCall
    /\ \E fixturenames \in FixtureLists :
        \E resolver \in [ SeqToSet(fixturenames) ->
                            {Unrequested, [object |-> "other"]}
                                \cup { [layer |-> l] : l \in 1..Len(layers) } ] :
            LET fs == ensure_qgis_layer_fixtures_are_cleaned(
                          ProjectState, fixturenames, resolver)
            IN /\ layers' = fs.layers
               /\ registry' = fs.registry
               /\ tree' = fs.tree
               /\ last' = [op |-> "ensure", fixturenames |-> fixturenames,
                           resolver |-> resolver, pre |-> Snapshot,
                           log |-> fs.log, seen |-> fs.seen]
    /\ UNCHANGED <<projectCrs, waitVars>>

NextFixtures ==
    \/ EnvFixtureLayer
    \/ EnvRemoveLayer
    \/ EnsureQgisLayerFixturesAreCleaned

SpecFixtures == Init /\ [][NextFixtures]_vars

-----------------------------------------------------------------------------
(* set_map_crs_based_on_layers *)

\* QgsProject.instance().mapLayers().values(): the registered layers, by id
MapLayers(st) ==
    LET n == Cardinality(st.registry)
    IN IF n = 0 THEN <<>>
       ELSE CHOOSE s \in [1..n -> st.registry] :
                \A i, j \in 1..n : i < j => s[i] < s[j]

RECURSIVE Counter(_)
\* collections.Counter(keys): <<key, count>> pairs in the order the keys are
\* first met
Counter(keys) ==
    IF keys = <<>> THEN <<>>
    ELSE LET rest == Counter(SubSeq(keys, 1, Len(keys) - 1))
             key == keys[Len(keys)]
             at == { i \in 1..Len(rest) : rest[i][1] = key }
         IN IF at = {} THEN Append(rest, <<key, 1>>)
            ELSE [rest EXCEPT ![Min(at)][2] = @ + 1]

\* A most_common that keeps the last of the keys with the highest count
most_common_last(counter) ==
    counter[Max({ i \in 1..Len(counter) :
                    \A j \in 1..Len(counter) : counter[j][2] <= counter[i][2] })]

\* Counter.most_common(1)[0]: max() over the items keeps the first of the keys
\* with the highest count
most_common(counter) ==
    counter[Min({ i \in 1..Len(counter) :
                    \A j \in 1..Len(counter) : counter[j][2] <= counter[i][2] })]

\* The CRS the project gets
set_map_crs_based_on_layers(st) ==
    LET all == MapLayers(st)
        spatial == Filter(all, { l \in st.registry : st.layers[l].spatial })
        crs_counter == Counter([i \in 1..Len(spatial) |-> st.layers[spatial[i]].crs])
    IN IF crs_counter # <<>> THEN most_common(crs_counter)[1] ELSE DEFAULT_CRS

CrsPool == {"EPSG:4326", "EPSG:3857", "EPSG:3067", InvalidCrs}

\* A test loads a layer, spatial or not, in one of the CRSs
EnvCrsLayer ==
    /\ Len(layers) < MaxCrsLayers
    /\ \E spatial \in BOOLEAN, c \in CrsPool :
          LET st == AddMapLayer(
                        [ProjectState EXCEPT !.layers =
                            Append(@, NewLayerObject("vector", spatial, TRUE, "a", c,
                                                     UnitExtent, "default"))],
                        Len(layers) + 1, TRUE)
          IN /\ layers' = st.layers
             /\ registry' = st.registry
             /\ tree' = st.tree
    /\ UNCHANGED <<projectCrs, last, waitVars>>

SetMapCrsBasedOnLayers ==
    /\ projectCrs' = set_map_crs_based_on_layers(ProjectState)
    /\ last' = [op |-> "set_map_crs", pre |-> Snapshot]
    /\ UNCHANGED <<layers, registry, tree, waitVars>>

NextCrs ==
    \/ EnvCrsLayer
    \/ SetMapCrsBasedOnLayers

SpecCrs == Init /\ [][NextCrs]_vars

-----------------------------------------------------------------------------
(* get_common_extent_from_all_layers *)

None == [none |-> TRUE]

\* QgsRectangle.combineExtentWith
combineExtentWith(extent, rect) ==
    [xmin |-> IF rect.xmin < extent.xmin THEN rect.xmin ELSE extent.xmin,
     ymin |-> IF rect.ymin < extent.ymin THEN rect.ymin ELSE extent.ymin,
     xmax |-> IF rect.xmax > extent.xmax THEN rect.xmax ELSE extent.xmax,
     ymax |-> IF rect.ymax > extent.ymax THEN rect.ymax ELSE extent.ymax]

\* transform_rectangle(layer.extent(), layer.crs(), map_crs)
LayerExtentIn(ls, l, map_crs) == transform_rectangle(ls[l].extent, ls[l].crs, map_crs)

RECURSIVE CombineAll(_, _, _, _)
\* for layer in layers[1:]: extent.combineExtentWith(...)
CombineAll(extent, ls, rest, map_crs) ==
    IF rest = <<>> THEN extent
    ELSE CombineAll(combineExtentWith(extent, LayerExtentIn(ls, Head(rest), map_crs)),
                    ls, Tail(rest), map_crs)

\* Lines 54-61 for the list layers
CommonExtent(ls, valid, map_crs) ==
    IF valid # <<>>
    THEN CombineAll(LayerExtentIn(ls, Head(valid), map_crs), ls, Tail(valid), map_crs)
    ELSE None

\* mapLayers(validOnly=True).values()
ValidLayers(st) == Filter(MapLayers(st), { l \in st.registry : st.layers[l].valid })

\* A version in which layer.extent() hands out the layer's own rectangle, which
\* combineExtentWith then widens
get_common_extent_aliasing(st, map_crs) ==
    LET valid == ValidLayers(st)
        ret == CommonExtent(st.layers, valid, map_crs)
    IN [ret |-> ret,
        layers |-> IF valid # <<>> /\ st.layers[Head(valid)].crs = map_crs
                   THEN [st.layers EXCEPT ![Head(valid)].extent = ret]
                   ELSE st.layers]

\* [ret |-> the value returned, layers |-> the layer objects after the call]:
\* layer.extent() gives a copy, so the rectangle that is widened belongs to no layer
get_common_extent_from_all_layers(st, map_crs) ==
    [ret |-> CommonExtent(st.layers, ValidLayers(st), map_crs), layers |-> st.layers]

ExtentPool ==
    {[xmin |-> 1, ymin |-> 1, xmax |-> 2, ymax |-> 3],
     [xmin |-> 3, ymin |-> 2, xmax |-> 5, ymax |-> 4],
     [xmin |-> 4, ymin |-> 5, xmax |-> 4, ymax |-> 5]}

\* A test loads a layer, valid or not, with its extent in its own CRS
EnvExtentLayer ==
    /\ last = NoCall
    /\ projectCrs # InvalidCrs
    /\ Len(layers) < MaxExtentLayers
    /\ \E valid \in BOOLEAN, c \in CRSs, e \in ExtentPool :
          LET st == AddMapLayer(
                        [ProjectState EXCEPT !.layers =
                            Append(@, NewLayerObject("vector", TRUE, valid, "a", c, e,
                                                     "default"))],
                        Len(layers) + 1, TRUE)
          IN /\ layers' = st.layers
             /\ registry' = st.registry
             /\ tree' = st.tree
    /\ UNCHANGED <<projectCrs, last, waitVars>>

GetCommonExtentFromAllLayers ==
    /\ LET r == get_common_extent_from_all_layers(ProjectState, projectCrs)
       IN /\ layers' = r.layers
          /\ last' = [op |-> "get_common_extent", pre |-> Snapshot, ret |-> r.ret]
    /\ UNCHANGED <<registry, projectCrs, tree, waitVars>>

NextExtent ==
    \/ SetProjectCrs
    \/ EnvExtentLayer
    \/ GetCommonExtentFromAllLayers

SpecExtent == Init /\ [][NextExtent]_vars

-----------------------------------------------------------------------------
(* wait *)

MsPerSecond == 1000
WaitTimes == {0, 1, 2}     \* wait_time_milliseconds, 0 being the default

\* time.time() moves on
Tick ==
    /\ clock < MaxClock
    /\ clock' = clock + 1
    /\ UNCHANGED <<projectVars, last, pc, start, waitTime, pumped>>

\* time.time() is the wall clock, which an adjustment of the system time sets back
ClockSetBack ==
    /\ clock > 0
    /\ clock' = clock - 1
    /\ UNCHANGED <<projectVars, last, pc, start, waitTime, pumped>>

\* start = time.time()
WaitCall ==
    /\ pc = "idle"
    /\ \E ms \in WaitTimes : waitTime' = ms
    /\ start' = clock
    /\ pumped' = 0
    /\ pc' = "check"
    /\ last' = [op |-> "wait", behind |-> FALSE]
    /\ UNCHANGED <<projectVars, clock>>

\* A loop that tests after its body, or with <=
StillWaitingInclusive(now, began, ms) ==
    (now - began) * MsPerSecond <= ms * TicksPerMs * MsPerSecond

\* (time.time() - start) * 1000 < wait_time_milliseconds, the clock being read
\* in ticks of 1 / (TicksPerMs * 1000) second
StillWaiting(now, began, ms) ==
    (now - began) * MsPerSecond < ms * TicksPerMs * MsPerSecond

\* The test of the while loop; last.behind notes a reading earlier than start
WaitCheck ==
    /\ pc = "check"
    /\ pc' = IF StillWaiting(clock, start, waitTime) THEN "pump" ELSE "done"
    /\ last' = [last EXCEPT !.behind = @ \/ clock < start]
    /\ UNCHANGED <<projectVars, clock, start, waitTime, pumped>>

\* QCoreApplication.processEvents()
ProcessEvents ==
    /\ pc = "pump"
    /\ pumped' = IF pumped < MaxPumps THEN pumped + 1 ELSE pumped
    /\ pc' = "check"
    /\ UNCHANGED <<projectVars, last, clock, start, waitTime>>

\* wait returns to its caller
WaitReturn ==
    /\ pc = "done"
    /\ pc' = "idle"
    /\ UNCHANGED <<projectVars, last, clock, start, waitTime, pumped>>

NextWait ==
    \/ Tick
    \/ ClockSetBack
    \/ WaitCall
    \/ WaitCheck
    \/ ProcessEvents
    \/ WaitReturn

SpecWait == Init /\ [][NextWait]_vars

-----------------------------------------------------------------------------
(* Properties of copy_layer_style_and_position and                         *)
(* replace_layers_with_reprojected_clones                                  *)

Returned(op) == last.op = op /\ ~last.raised

\* isinstance(layer, QgsVectorLayer/QgsRasterLayer) and layer.isSpatial()
Replaceable(layer) == (IsVectorLayer(layer) \/ IsRasterLayer(layer)) /\ layer.spatial

\* The node right after the node of layer l, among the children of l's group in
\* tree t, is the node of layer c
RightAfter(t, l, c) ==
    LET path == FindLayer(t, l)
        sib == Siblings(t, path)
        pos == path[Len(path)]
    IN path # <<>> /\ pos < Len(sib) /\ sib[pos + 1] = LayerNode(c)

\* C5: copy_layer_style_and_position(source, target, tmp) puts the target's node
\* into the group of the source's node, at the position right after the source's
\* own index, whatever the names of the source's siblings are.
C5_TargetRightAfterSource ==
    Returned("copy") => RightAfter(tree, last.layer1, last.layer2)

\* C10: when every node of the layer tree refers to a registered layer before
\* copy_layer_style_and_position or replace_layers_with_reprojected_clones, every
\* node does so after the call, for valid and for invalid targets and clones.
C10_TreeNodesAreRegistered ==
    (Returned("copy") \/ Returned("replace")) =>
        (TreeLayerIds(last.pre.tree) \subseteq last.pre.registry
            => TreeLayerIds(tree) \subseteq registry)

\* C2: a layer of the input list that is neither a spatial vector layer nor a
\* spatial raster layer gets no replacement and, if it was registered before
\* replace_layers_with_reprojected_clones, is still registered after it.
C2_IgnoredLayersStay ==
    Returned("replace") =>
        \A i \in 1..Len(last.input) :
            LET l == last.input[i]
            IN ~Replaceable(last.pre.layers[l]) =>
                  /\ \A k \in 1..Len(last.clones) : last.clones[k].orig # l
                  /\ l \in last.pre.registry => l \in registry

\* The inputs C1 speaks of: spatial vector or raster layers, registered, with a
\* tree node, in a CRS other than the project's
C1_Inputs ==
    \A i \in 1..Len(last.input) :
        LET l == last.input[i]
        IN /\ Replaceable(last.pre.layers[l])
           /\ l \in last.pre.registry
           /\ FindLayer(last.pre.tree, l) # <<>>
           /\ last.pre.layers[l].crs # last.pre.crs

\* C1: after replace_layers_with_reprojected_clones returns, for such inputs, the
\* project holds for each original a new layer in the project's CRS and with the
\* original's name, whose node was put right after the original's index (as the
\* tree stood while the original still had its node), and no original is
\* registered any more.
C1_ReplacedByCloneInPlace ==
    (Returned("replace") /\ C1_Inputs) =>
        \A i \in 1..Len(last.input) :
            LET l == last.input[i]
            IN /\ l \notin registry
               /\ \E c \in registry \ (1..Len(last.pre.layers)) :
                     /\ layers[c].crs = projectCrs
                     /\ layers[c].name = last.pre.layers[l].name
                     /\ RightAfter(last.mid, l, c)
                     /\ FindLayer(tree, c) # <<>>

\* The place of the external call that raised: the first raising outcome
FailedAt == Min({ i \in 1..Len(last.outcomes) : last.outcomes[i].raises })

ExternalFailure ==
    /\ last.op = "replace"
    /\ \E i \in 1..Len(last.outcomes) : last.outcomes[i].raises

-----------------------------------------------------------------------------
(* Properties of ensure_qgis_layer_fixtures_are_cleaned *)

\* The names of FixtureNames that contain layer, lyr, raster, rast or tif in
\* some spelling
LayerishNames == {RasterFixture, MyLayer, GeoTIF}

\* The calls logged for fixturenames[i], in order
StepLog(i) ==
    LET OfStep(e) == e.step = i
    IN SelectSeq(last.log, OfStep)

Call(i, call, arg) == [step |-> i, call |-> call, arg |-> arg]

\* C4: a fixture name without a layer keyword is never resolved; one with a
\* keyword is resolved, and if it resolves to a live layer that is not registered
\* the project gets one addMapLayer call for it and right after it one
\* removeMapLayer call; a fixture that was never requested is skipped, and the
\* names after it are still processed.
C4_FixtureGuardCalls ==
    last.op = "ensure" =>
        /\ Len(last.seen) = Len(last.fixturenames)
        /\ \A i \in 1..Len(last.fixturenames) :
              LET n == last.fixturenames[i]
                  v == last.resolver[n]
                  asked == Call(i, "getfixturevalue", n)
              IN /\ n \notin LayerishNames => StepLog(i) = <<>>
                 /\ n \in LayerishNames =>
                       /\ StepLog(i) # <<>> /\ Head(StepLog(i)) = asked
                       /\ v = Unrequested => StepLog(i) = <<asked>>
                       /\ (IsMapLayer(v) /\ last.seen[i].live /\ ~last.seen[i].registered)
                             => StepLog(i) = << asked,
                                                Call(i, "addMapLayer", v.layer),
                                                Call(i, "removeMapLayer", v.layer) >>

\* An unrequested fixture comes first, and the fixture after it resolves to a
\* live unregistered layer that is added and removed
C4_Witness ==
    /\ last.op = "ensure"
    /\ Len(last.fixturenames) = 2
    /\ last.resolver[last.fixturenames[1]] = Unrequested
    /\ StepLog(1) = <<Call(1, "getfixturevalue", last.fixturenames[1])>>
    /\ IsMapLayer(last.resolver[last.fixturenames[2]])
    /\ last.seen[2].live /\ ~last.seen[2].registered
    /\ Len(StepLog(2)) = 3

\* C3: the guard makes no addMapLayer and no removeMapLayer call for a layer that
\* is registered in the project, valid or not, so every layer registered before
\* the guard is registered after it.
C3_RegisteredLayersUntouched ==
    last.op = "ensure" =>
        /\ \A i \in 1..Len(last.fixturenames) :
              LET v == last.resolver[last.fixturenames[i]]
              IN (IsMapLayer(v) /\ last.seen[i].registered) =>
                    \A k \in 1..Len(StepLog(i)) : StepLog(i)[k].call = "getfixturevalue"
        /\ last.pre.registry \subseteq registry

-----------------------------------------------------------------------------
(* Properties of set_map_crs_based_on_layers, get_common_extent_from_all_layers *)
(* and wait                                                                    *)

\* The spatial layers registered before the call
SpatialBefore == { l \in last.pre.registry : last.pre.layers[l].spatial }

Votes(c) == Cardinality({ l \in SpatialBefore : last.pre.layers[l].crs = c })

FirstMet(c) == Min({ l \in SpatialBefore : last.pre.layers[l].crs = c })

\* C6: set_map_crs_based_on_layers sets the project CRS to the authority id most
\* frequent among the spatial layers of the project; of several ids with the
\* highest count the one met first in the iteration of the layers wins; with no
\* spatial layer the project CRS becomes EPSG:4326.
C6_MostCommonSpatialCrs ==
    last.op = "set_map_crs" =>
        IF SpatialBefore = {} THEN projectCrs = "EPSG:4326"
        ELSE /\ Votes(projectCrs) > 0
             /\ \A c \in CrsPool :
                   /\ Votes(c) <= Votes(projectCrs)
                   /\ (Votes(c) = Votes(projectCrs)) => FirstMet(projectCrs) <= FirstMet(c)

\* Two ids tie for the highest count, a non-spatial layer is in the project, and
\* the id met first won and replaced the former project CRS
C6_Witness ==
    /\ last.op = "set_map_crs"
    /\ \E c \in CrsPool \ {projectCrs} : Votes(c) = Votes(projectCrs) /\ Votes(c) > 0
    /\ last.pre.registry # SpatialBefore
    /\ projectCrs # last.pre.crs

\* The valid layers registered before the call
ValidBefore == { l \in last.pre.registry : last.pre.layers[l].valid }

ExtentBefore(l) == LayerExtentIn(last.pre.layers, l, last.pre.crs)

\* The smallest rectangle covering the extents, in the project CRS, of the layers S
Cover(S) ==
    [xmin |-> Min({ ExtentBefore(l).xmin : l \in S }),
     ymin |-> Min({ ExtentBefore(l).ymin : l \in S }),
     xmax |-> Max({ ExtentBefore(l).xmax : l \in S }),
     ymax |-> Max({ ExtentBefore(l).ymax : l \in S })]

\* The valid layers before the call, in every order
OrdersOfValid ==
    { s \in [1..Cardinality(ValidBefore) -> ValidBefore] :
        \A i, j \in 1..Len(s) : s[i] = s[j] => i = j }

\* C7: get_common_extent_from_all_layers returns nothing exactly when the project
\* has no valid layer, and otherwise the smallest rectangle covering the extents
\* of the valid layers, each in the project CRS; every order of the layers gives
\* that result; the project and the layers are as before the call.
C7_CommonExtentIsCover ==
    last.op = "get_common_extent" =>
        /\ (last.ret = None) <=> (ValidBefore = {})
        /\ ValidBefore # {} => last.ret = Cover(ValidBefore)
        /\ \A order \in OrdersOfValid :
              CommonExtent(last.pre.layers, order, last.pre.crs) = last.ret
        /\ Snapshot = last.pre

\* Valid layers in different CRSs and an invalid layer whose extent would have
\* widened the result
C7_Witness ==
    /\ last.op = "get_common_extent"
    /\ \E l, m \in ValidBefore : last.pre.layers[l].crs # last.pre.layers[m].crs
    /\ \E l \in last.pre.registry \ ValidBefore :
          Cover(ValidBefore \cup {l}) # Cover(ValidBefore)
    /\ \A l \in ValidBefore : ExtentBefore(l) # last.ret

\* C8 as stated: wait(0) has processed the pending events once when it returns.
C8_WaitZeroPumpsOnce ==
    (pc = "done" /\ waitTime = 0) => pumped = 1

\* C8 as amended: wait(0) calls processEvents only after a reading of the clock
\* earlier than the one it started with; with no such reading it returns
\* without having processed any event.
C8_WaitZeroPumpsNothing ==
    (pc \in {"check", "pump", "done"} /\ waitTime = 0 /\ ~last.behind)
        => (pumped = 0 /\ pc # "pump")

\* wait(0) returns after time went by, never having seen the clock behind
C8_Witness ==
    pc = "done" /\ waitTime = 0 /\ ~last.behind /\ pumped = 0 /\ clock > start

====
